---- MODULE Spec2Model ----
(***************************************************************************)
(* Model of namespace make87 of minimal_publisher/member_function.cpp:     *)
(* sanitize_and_checksum (the identifier normalizer) and                   *)
(* resolve_topic_name (the TOPICS lookup with fallback).                   *)
(*                                                                         *)
(* Strings are sequences of bytes 0..255.  uint64_t and size_t values are  *)
(* four 16-bit limbs, least significant first, so that every operation is  *)
(* computed modulo 2^64 and a carry or borrow out of the top limb is       *)
(* visible.                                                                *)
(***************************************************************************)
EXTENDS Integers, Sequences, FiniteSets, TLC

VARIABLES
    char_signed,    \* whether plain char is signed in this build
    input,          \* argument of the next direct sanitize_and_checksum call
    norm,           \* locals of the last direct sanitize_and_checksum call
    TOPICS,         \* the TOPICS entry of the process environment
    call            \* the last resolve_topic_name call: arguments and outcome

vars == <<char_signed, input, norm, TOPICS, call>>

----------------------------------------------------------------------------
(* Bounds of the explored inputs.                                          *)

MaxShort == 3       \* longest input built byte by byte
MaxHead == 1        \* longest input a long run is appended to
PadMin == 238       \* shortest long run
PadSpan == 17       \* the long runs have PadMin .. PadMin + PadSpan bytes

\* bytes used to build inputs: 'a', 'b', '!', '@', and 0xC3 (UTF-8 lead byte)
Alphabet == {97, 98, 33, 64, 195}
\* bytes used for the long runs
PadBytes == {122, 32}
AllBytes == 0 .. 255

----------------------------------------------------------------------------
(* uint64_t / size_t arithmetic.                                           *)

Limb == 2 ^ 16

U64FromNat(n) == << n % Limb, (n \div Limb) % Limb, 0, 0 >>

\* x < n, for a natural n below 2^31
U64LessNat(x, n) ==
    /\ x[4] = 0
    /\ x[3] = 0
    /\ x[2] <= n \div Limb
    /\ x[2] * Limb + x[1] < n

\* the natural number a U64 holds; used only where U64LessNat(x, 2^31 - 1)
U64ToNat(x) == x[2] * Limb + x[1]

\* x * m + a modulo 2^64, with the carry out of bit 63
U64MulAdd(x, m, a) ==
    LET c0 == x[1] * m + a
        c1 == x[2] * m + (c0 \div Limb)
        c2 == x[3] * m + (c1 \div Limb)
        c3 == x[4] * m + (c2 \div Limb)
    IN  [ v     |-> << c0 % Limb, c1 % Limb, c2 % Limb, c3 % Limb >>,
          carry |-> c3 \div Limb ]

\* x - y modulo 2^64, with the borrow out of bit 63
U64Sub(x, y) ==
    LET d0 == x[1] - y[1]
        b0 == IF d0 < 0 THEN 1 ELSE 0
        d1 == x[2] - y[2] - b0
        b1 == IF d1 < 0 THEN 1 ELSE 0
        d2 == x[3] - y[3] - b1
        b2 == IF d2 < 0 THEN 1 ELSE 0
        d3 == x[4] - y[4] - b2
        b3 == IF d3 < 0 THEN 1 ELSE 0
    IN  [ v      |-> << d0 + b0 * Limb, d1 + b1 * Limb,
                        d2 + b2 * Limb, d3 + b3 * Limb >>,
          borrow |-> b3 ]

\* (2 * r) % m and (2^16 * r) % m for r < m <= 2^30
DblMod(r, m) == (2 * r) % m
Shl4Mod(r, m) == DblMod(DblMod(DblMod(DblMod(r, m), m), m), m)
Shl16Mod(r, m) ==
    IF r = 0 THEN 0 ELSE Shl4Mod(Shl4Mod(Shl4Mod(Shl4Mod(r, m), m), m), m)

\* x % m for a modulus m <= 2^30
U64Mod(x, m) ==
    LET r3 == x[4] % m
        r2 == (Shl16Mod(r3, m) + x[3]) % m
        r1 == (Shl16Mod(r2, m) + x[2]) % m
    IN  (Shl16Mod(r1, m) + x[1]) % m

\* x / 10 and x % 10
U64DivMod10(x) ==
    LET c3 == x[4]
        c2 == (c3 % 10) * Limb + x[3]
        c1 == (c2 % 10) * Limb + x[2]
        c0 == (c1 % 10) * Limb + x[1]
    IN  [ q |-> << c0 \div 10, c1 \div 10, c2 \div 10, c3 \div 10 >>,
          r |-> c0 % 10 ]

RECURSIVE to_string(_)

\* a rendering zero-padded on the left to two digits
to_string_padded(x) ==
    IF U64LessNat(x, 10) THEN << 48, 48 + x[1] >> ELSE to_string(x)

\* std::to_string of an unsigned value: decimal digits, no leading zeros
to_string(x) ==
    IF U64LessNat(x, 10)
    THEN << 48 + x[1] >>
    ELSE LET d == U64DivMod10(x) IN Append(to_string(d.q), 48 + d.r)

----------------------------------------------------------------------------
(* sanitize_and_checksum                                                   *)

prefix == << 114, 111, 115, 50, 95 >>      \* "ros2_"
max_total_length == 256
Modulus == 1000000007
Multiplier == 31

\* the value of the char holding byte b
as_char(b) == IF char_signed /\ b >= 128 THEN b - 256 ELSE b

\* the test of the sanitize loop on a char value
is_identifier_char(c) ==
    \/ (c >= 97 /\ c <= 122)
    \/ (c >= 65 /\ c <= 90)
    \/ (c >= 48 /\ c <= 57)
    \/ c = 95

\* a sanitize loop that drops the bytes it should replace
sanitize_dropping(s) ==
    SelectSeq(s, LAMBDA b : is_identifier_char(as_char(b)))

\* the sanitize loop: one output byte per input byte
sanitize(s) ==
    [ i \in 1 .. Len(s) |->
        IF is_identifier_char(as_char(s[i])) THEN s[i] ELSE 95 ]

\* a checksum loop that folds the sanitized bytes
checksum_bytes_sanitized(s) == sanitize(s)

\* the bytes the checksum loop folds: the original input, as unsigned char
checksum_bytes(s) == s

\* an iteration that leaves out the reduction modulo Modulus
checksum_step_unreduced(st, b) ==
    LET p == U64MulAdd(st.sum, Multiplier, b)
    IN  [ sum     |-> p.v,
          wrapped |-> st.wrapped \/ p.carry # 0,
          bounded |-> st.bounded /\ U64LessNat(st.sum, Modulus) ]

\* one iteration of the checksum loop; wrapped and bounded record whether
\* sum * 31 + b ever carried out of 64 bits and whether the accumulator was
\* below the modulus before every iteration
checksum_step(st, b) ==
    LET p == U64MulAdd(st.sum, Multiplier, b)
    IN  [ sum     |-> U64FromNat(U64Mod(p.v, Modulus)),
          wrapped |-> st.wrapped \/ p.carry # 0,
          bounded |-> st.bounded /\ U64LessNat(st.sum, Modulus) ]

\* the checksum loop over s[lo .. hi], in order, from accumulator st
\* (split in halves to keep the evaluation shallow)
RECURSIVE checksum_loop(_, _, _, _)
checksum_loop(s, lo, hi, st) ==
    IF lo > hi THEN st
    ELSE IF lo = hi THEN checksum_step(st, s[lo])
    ELSE LET mid == (lo + hi) \div 2
             left == checksum_loop(s, lo, mid, st)
         IN  IF left.sum = left.sum          \* evaluate the first half first
             THEN checksum_loop(s, mid + 1, hi, left)
             ELSE left

\* a truncation that keeps one character too many
truncate_off_by_one(sanitized, max_sanitized_length) ==
    IF U64LessNat(max_sanitized_length, Len(sanitized))
    THEN SubSeq(sanitized, 1, U64ToNat(max_sanitized_length) + 1)
    ELSE sanitized

\* the sanitized segment after the truncation test
truncate(sanitized, max_sanitized_length) ==
    IF U64LessNat(max_sanitized_length, Len(sanitized))
    THEN SubSeq(sanitized, 1, U64ToNat(max_sanitized_length))
    ELSE sanitized

\* all locals of one call
sanitize_and_checksum_locals(s) ==
    LET sanitized == sanitize(s)
        st == checksum_loop(checksum_bytes(s), 1, Len(s),
                  [ sum |-> U64FromNat(0), wrapped |-> FALSE, bounded |-> TRUE ])
        checksum == to_string(st.sum)
        d1 == U64Sub(U64FromNat(max_total_length), U64FromNat(Len(prefix)))
        d2 == U64Sub(d1.v, U64FromNat(Len(checksum)))
        kept == truncate(sanitized, d2.v)
    IN  [ called               |-> TRUE,
          input                |-> s,
          sanitized            |-> sanitized,
          sum                  |-> st.sum,
          wrapped              |-> st.wrapped,
          bounded              |-> st.bounded,
          checksum             |-> checksum,
          max_sanitized_length |-> d2.v,
          underflow            |-> d1.borrow + d2.borrow > 0,
          kept                 |-> kept,
          ret                  |-> prefix \o kept \o checksum ]

sanitize_and_checksum(s) == sanitize_and_checksum_locals(s).ret

NoNorm ==
    [ called |-> FALSE, input |-> << >>, sanitized |-> << >>,
      sum |-> U64FromNat(0), wrapped |-> FALSE, bounded |-> TRUE,
      checksum |-> << >>, max_sanitized_length |-> U64FromNat(0),
      underflow |-> FALSE, kept |-> << >>, ret |-> << >> ]

----------------------------------------------------------------------------
(* JSON documents, as nlohmann::json holds them after parsing.  Only what  *)
(* resolve_topic_name inspects is kept: the kind of the root, its "topics" *)
(* member, and of each array element its kind and its "topic_name" and     *)
(* "topic_key" members.                                                    *)

MaxEntries == 2     \* longest "topics" array

NameX == << 88 >>                 \* "X"
NameY == << 89 >>                 \* "Y"
Key1 == << 97, 33, 98 >>          \* "a!b"
Key2 == << 97, 64, 98 >>          \* "a@b"
Default1 == << 116, 111, 112, 105, 99 >>      \* "topic"
Default2 == << 100 >>                         \* "d"

SearchTopics == { NameX, NameY }
DefaultValues == { Default1, Default2 }

NoMember == [ has |-> FALSE, is_string |-> FALSE, str |-> << >> ]
NumberMember == [ has |-> TRUE, is_string |-> FALSE, str |-> << >> ]
StringMember(v) == [ has |-> TRUE, is_string |-> TRUE, str |-> v ]

ObjectEntry(n, k) == [ kind |-> "object", topic_name |-> n, topic_key |-> k ]
NumberEntry == [ kind |-> "number", topic_name |-> NoMember, topic_key |-> NoMember ]

\* the array elements the environment is given
Entries ==
    { NumberEntry,
      ObjectEntry(NoMember, StringMember(Key1)),
      ObjectEntry(NumberMember, StringMember(Key1)),
      ObjectEntry(StringMember(NameX), NoMember),
      ObjectEntry(StringMember(NameX), NumberMember),
      ObjectEntry(StringMember(NameX), StringMember(Key1)),
      ObjectEntry(StringMember(NameX), StringMember(Key2)),
      ObjectEntry(StringMember(NameY), NoMember),
      ObjectEntry(StringMember(NameY), StringMember(Key1)) }

Root(kind, has, arr, items) ==
    [ kind |-> kind, has_topics |-> has, topics_is_array |-> arr, topics |-> items ]

\* documents without a usable "topics" array, and the one with an empty array
Roots ==
    { Root("number", FALSE, FALSE, << >>),      \* 42
      Root("array", FALSE, FALSE, << >>),       \* []
      Root("object", FALSE, FALSE, << >>),      \* {}
      Root("object", TRUE, FALSE, << >>),       \* {"topics":"x"}
      Root("object", TRUE, TRUE, << >>) }       \* {"topics":[]}

\* The text of TOPICS is kept as what nlohmann::json::parse makes of it:
\*   "malformed": not JSON text, parse throws json::parse_error;
\*   "overflow":  JSON text with a number literal that is not finite as a
\*                double (1e999), parse throws json::out_of_range (id 406);
\*   "valid":     parse returns doc.
Text(syntax, doc) == [ syntax |-> syntax, doc |-> doc ]

Unset == [ set |-> FALSE, text |-> Text("malformed", Root("number", FALSE, FALSE, << >>)) ]
SetTo(text) == [ set |-> TRUE, text |-> text ]

\* std::getenv("TOPICS"): the value, or a null pointer
getenv(env) == env

\* nlohmann::json::parse(env_value)
parse(text) ==
    CASE text.syntax = "valid" ->
            [ ok |-> TRUE, value |-> text.doc, exception |-> "", what |-> "" ]
      [] text.syntax = "malformed" ->
            [ ok |-> FALSE, value |-> text.doc,
              exception |-> "parse_error", what |-> "parse_error.101" ]
      [] text.syntax = "overflow" ->
            [ ok |-> FALSE, value |-> text.doc,
              exception |-> "out_of_range", what |-> "out_of_range.406" ]

\* json::contains(key) on a value: false for anything but an object
contains_topics(json_obj) == json_obj.kind = "object" /\ json_obj.has_topics
contains_member(topic, member) == topic.kind = "object" /\ member.has

\* topic["topic_name"] == search_topic
name_matches(topic, search_topic) ==
    /\ contains_member(topic, topic.topic_name)
    /\ topic.topic_name.is_string
    /\ topic.topic_name.str = search_topic

\* topic.contains("topic_key") && topic["topic_key"].is_string()
has_string_key(topic) ==
    contains_member(topic, topic.topic_key) /\ topic.topic_key.is_string

----------------------------------------------------------------------------
(* resolve_topic_name                                                      *)

\* a loop that gives up at the first element whose topic_name matches
RECURSIVE scan_topics_stop_at_name(_, _, _)
scan_topics_stop_at_name(topics, i, search_topic) ==
    IF i > Len(topics) THEN 0
    ELSE IF name_matches(topics[i], search_topic)
         THEN (IF has_string_key(topics[i]) THEN i ELSE 0)
         ELSE scan_topics_stop_at_name(topics, i + 1, search_topic)

\* a loop that remembers the last usable element instead of returning
RECURSIVE scan_topics_last(_, _, _)
scan_topics_last(topics, i, search_topic) ==
    IF i > Len(topics) THEN 0
    ELSE LET later == scan_topics_last(topics, i + 1, search_topic)
         IN  IF later # 0 THEN later
             ELSE IF name_matches(topics[i], search_topic)
                     /\ has_string_key(topics[i])
                  THEN i ELSE 0

\* the for loop from element i on: the index of the element at which the
\* loop returns, or 0 when it runs to the end of the array
RECURSIVE scan_topics(_, _, _)
scan_topics(topics, i, search_topic) ==
    IF i > Len(topics) THEN 0
    ELSE IF name_matches(topics[i], search_topic)
            /\ has_string_key(topics[i])
         THEN i
         ELSE scan_topics(topics, i + 1, search_topic)

Diagnostic(line, topic, what) == [ line |-> line, topic |-> topic, what |-> what ]

Returned(value, cerr) ==
    [ outcome |-> "returned", ret |-> value, exception |-> "", cerr |-> cerr ]
Threw(exception) ==
    [ outcome |-> "threw", ret |-> << >>, exception |-> exception, cerr |-> << >> ]

\* the body of the try block on a parsed document
try_block(json_obj, search_topic, default_value) ==
    LET found ==
            IF contains_topics(json_obj) /\ json_obj.topics_is_array
            THEN scan_topics(json_obj.topics, 1, search_topic)
            ELSE 0
    IN  IF found # 0
        THEN Returned(sanitize_and_checksum(json_obj.topics[found].topic_key.str),
                      << >>)
        ELSE Returned(default_value,
                      << Diagnostic("not_found", search_topic, "") >>)

\* the catch clauses: parse_error and type_error are handled, any other
\* exception leaves the function
catch_clauses(exception, what, default_value) ==
    CASE exception = "parse_error" ->
            Returned(default_value, << Diagnostic("parse_error", << >>, what) >>)
      [] exception = "type_error" ->
            Returned(default_value, << Diagnostic("type_error", << >>, what) >>)
      [] OTHER -> Threw(exception)

resolve_topic_name(search_topic, default_value, env) ==
    LET env_value == getenv(env)
    IN  IF ~ env_value.set
        THEN Returned(default_value, << Diagnostic("not_set", << >>, "") >>)
        ELSE LET parsed == parse(env_value.text)
             IN  IF parsed.ok
                 THEN try_block(parsed.value, search_topic, default_value)
                 ELSE catch_clauses(parsed.exception, parsed.what, default_value)

----------------------------------------------------------------------------
(* The process: the environment changes between calls, and each call of    *)
(* resolve_topic_name is one step.  call.current records that TOPICS has   *)
(* not changed since the call read it.                                     *)

NoCall ==
    [ called |-> FALSE, current |-> FALSE,
      search_topic |-> << >>, default_value |-> << >>,
      outcome |-> "none", ret |-> << >>, exception |-> "", cerr |-> << >> ]

CallRecord(search_topic, default_value, r) ==
    [ called |-> TRUE, current |-> TRUE,
      search_topic |-> search_topic, default_value |-> default_value,
      outcome |-> r.outcome, ret |-> r.ret, exception |-> r.exception,
      cerr |-> r.cerr ]

Init ==
    /\ char_signed \in BOOLEAN
    /\ input = << >>
    /\ norm = NoNorm
    /\ TOPICS = Unset
    /\ call = NoCall

Changed(env) ==
    /\ env # TOPICS
    /\ TOPICS' = env
    /\ call' = [ call EXCEPT !.current = FALSE ]
    /\ UNCHANGED << char_signed, input, norm >>

Unsetenv == Changed(Unset)

SetenvMalformed == Changed(SetTo(Text("malformed", Root("number", FALSE, FALSE, << >>))))

SetenvDocument == \E root \in Roots : Changed(SetTo(Text("valid", root)))

\* an element is appended to the "topics" array of the text
AppendEntry ==
    /\ TOPICS.set
    /\ TOPICS.text.syntax # "malformed"
    /\ TOPICS.text.doc.kind = "object"
    /\ TOPICS.text.doc.has_topics
    /\ TOPICS.text.doc.topics_is_array
    /\ Len(TOPICS.text.doc.topics) < MaxEntries
    /\ \E e \in Entries :
          Changed([ TOPICS EXCEPT !.text.doc.topics = Append(@, e) ])

\* a member holding the number 1e999 is added to the root object of the text
AddOverflowingNumber ==
    /\ TOPICS.set
    /\ TOPICS.text.syntax = "valid"
    /\ TOPICS.text.doc.kind = "object"
    /\ Changed([ TOPICS EXCEPT !.text.syntax = "overflow" ])

\* a call that returns what the previous call with the same arguments did
CallCached ==
    /\ \E s \in SearchTopics, d \in DefaultValues :
          call' = IF call.called /\ call.search_topic = s /\ call.default_value = d
                  THEN [ call EXCEPT !.current = TRUE ]
                  ELSE CallRecord(s, d, resolve_topic_name(s, d, TOPICS))
    /\ UNCHANGED << char_signed, input, norm, TOPICS >>

Call ==
    /\ \E s \in SearchTopics, d \in DefaultValues :
          call' = CallRecord(s, d, resolve_topic_name(s, d, TOPICS))
    /\ UNCHANGED << char_signed, input, norm, TOPICS >>

Next ==
    \/ Unsetenv
    \/ SetenvMalformed
    \/ SetenvDocument
    \/ AppendEntry
    \/ AddOverflowingNumber
    \/ Call

Spec == Init /\ [][Next]_vars

----------------------------------------------------------------------------
(* Direct calls of sanitize_and_checksum on keys built by the caller.      *)


InitNormalizer ==
    /\ char_signed \in BOOLEAN
    /\ input = << >>
    /\ norm = NoNorm
    /\ TOPICS = Unset
    /\ call = NoCall

\* the caller picks a one-byte key of any value
AnyByte ==
    /\ ~ norm.called
    /\ input = << >>
    /\ \E b \in AllBytes : input' = << b >>
    /\ UNCHANGED << char_signed, norm, TOPICS, call >>

\* the caller extends a short key by one byte
AppendByte ==
    /\ ~ norm.called
    /\ Len(input) < MaxShort
    /\ \A i \in 1 .. Len(input) : input[i] \in Alphabet
    /\ \E b \in Alphabet : input' = Append(input, b)
    /\ UNCHANGED << char_signed, norm, TOPICS, call >>

\* the caller extends a short key by a long run of one byte
Pad ==
    /\ ~ norm.called
    /\ Len(input) <= MaxHead
    /\ \A i \in 1 .. Len(input) : input[i] \in Alphabet
    /\ \E b \in PadBytes, n \in PadMin .. PadMin + PadSpan :
          input' = input \o [ i \in 1 .. n |-> b ]
    /\ UNCHANGED << char_signed, norm, TOPICS, call >>

\* the call itself
Normalize ==
    /\ norm' = sanitize_and_checksum_locals(input)
    /\ UNCHANGED << char_signed, input, TOPICS, call >>

\* after a call, the caller changes one byte of the short key it passed
ReplaceByte ==
    /\ norm.called
    /\ input = norm.input
    /\ Len(input) <= MaxShort
    /\ \E i \in 1 .. Len(input), b \in Alphabet :
          /\ b # input[i]
          /\ input' = [ input EXCEPT ![i] = b ]
    /\ UNCHANGED << char_signed, norm, TOPICS, call >>

\* the caller starts over with a new key
NewKey ==
    /\ norm.called
    /\ input' = << >>
    /\ norm' = NoNorm
    /\ UNCHANGED << char_signed, TOPICS, call >>

NextNormalizer ==
    AnyByte \/ AppendByte \/ Pad \/ Normalize \/ ReplaceByte \/ NewKey

SpecNormalizer == InitNormalizer /\ [][NextNormalizer]_vars

----------------------------------------------------------------------------
(* Reference definitions used by the properties: the rolling hash and the  *)
(* decimal rendering over the naturals, without machine words.             *)

RECURSIVE TimesMod(_, _, _)
TimesMod(h, k, m) == IF k = 0 THEN 0 ELSE (TimesMod(h, k - 1, m) + h) % m

RefStep(h, b) == (TimesMod(h, 31, 1000000007) + b) % 1000000007

RECURSIVE RefFold(_, _, _, _)
RefFold(s, lo, hi, h) ==
    IF lo > hi THEN h
    ELSE IF lo = hi THEN RefStep(h, s[lo])
    ELSE LET mid == (lo + hi) \div 2
             left == RefFold(s, lo, mid, h)
         IN  IF left >= 0 THEN RefFold(s, mid + 1, hi, left) ELSE left

RefHash(s) == RefFold(s, 1, Len(s), 0)

RECURSIVE Decimal(_)
Decimal(n) ==
    IF n < 10 THEN << 48 + n >> ELSE Append(Decimal(n \div 10), 48 + (n % 10))

IdentifierBytes == (48 .. 57) \cup (65 .. 90) \cup (97 .. 122) \cup {95}
DigitBytes == 48 .. 57

Ros2 == << 114, 111, 115, 50, 95 >>

Suffix(r, n) == SubSeq(r, Len(r) - n + 1, Len(r))

\* the positions where two strings of the same length differ
DiffPositions(a, b) == { i \in 1 .. Len(a) : a[i] # b[i] }

\* the value of a decimal digit string of at most 9 digits
RECURSIVE DigitsValue(_)
DigitsValue(d) ==
    IF Len(d) = 0 THEN 0
    ELSE 10 * DigitsValue(SubSeq(d, 1, Len(d) - 1)) + (d[Len(d)] - 48)

\* d renders, without leading zeros, a value in [0, 1000000007)
IsChecksumRendering(d) ==
    /\ Len(d) >= 1
    /\ \A i \in 1 .. Len(d) : d[i] \in DigitBytes
    /\ (Len(d) > 1 => d[1] # 48)
    /\ \/ Len(d) <= 9
       \/ /\ Len(d) = 10
          /\ d[1] = 49
          /\ DigitsValue(SubSeq(d, 2, 10)) < 7

----------------------------------------------------------------------------
(* Properties of sanitize_and_checksum (under SpecNormalizer).             *)

\* C4: the result never exceeds 256 characters; when 5 + len(s) +
\* len(checksum) > 256 it has exactly 256 characters and its sanitized
\* segment is the leading 256 - 5 - len(checksum) characters of the
\* sanitized form of s; otherwise its length is 5 + len(s) + len(checksum).
C4_LengthBound ==
    norm.called =>
        LET n == Len(norm.input)
            c == Len(norm.checksum)
            r == norm.ret
        IN  /\ Len(r) <= 256
            /\ IF 5 + n + c > 256
               THEN /\ Len(r) = 256
                    /\ SubSeq(r, 6, 256 - c)
                         = SubSeq(norm.sanitized, 1, 256 - 5 - c)
                    /\ Suffix(r, c) = norm.checksum
               ELSE /\ Len(r) = 5 + n + c
                    /\ SubSeq(r, 6, 5 + n) = norm.sanitized

C4_Witness ==
    /\ norm.called
    /\ 5 + Len(norm.input) + Len(norm.checksum) = 257
    /\ Len(norm.ret) = 256

\* C5: every result begins with "ros2_", ends with the complete decimal
\* rendering (non-empty, no leading zeros) of a value in [0, 1000000007),
\* has between them a leading part of the sanitized form of the input, and
\* consists of characters of [A-Za-z0-9_] only.
C5_Shape ==
    norm.called =>
        LET r == norm.ret
            c == Len(norm.checksum)
        IN  /\ Len(r) >= 5 + c
            /\ SubSeq(r, 1, 5) = Ros2
            /\ Suffix(r, c) = norm.checksum
            /\ IsChecksumRendering(Suffix(r, c))
            /\ SubSeq(r, 6, Len(r) - c)
                 = SubSeq(norm.sanitized, 1, Len(r) - c - 5)
            /\ \A i \in 1 .. Len(r) : r[i] \in IdentifierBytes

C5_Witness ==
    /\ norm.called
    /\ Len(norm.kept) < Len(norm.sanitized)
    /\ \E i \in 1 .. Len(norm.input) : norm.input[i] \notin IdentifierBytes

\* C6: the appended checksum is the rolling hash (start 0, step
\* (sum * 31 + byte) mod 1000000007) of the ORIGINAL bytes 0..255 in order:
\* the empty input gives "ros2_0", and two inputs that sanitize to the same
\* string and differ in one replaced byte get different checksums.
C6_ChecksumOfOriginal ==
    norm.called =>
        LET d == Decimal(RefHash(norm.input))
        IN  /\ norm.checksum = d
            /\ Suffix(norm.ret, Len(d)) = d
            /\ (norm.input = << >> => norm.ret = Ros2 \o << 48 >>)
            /\ (norm.input = << 97, 33, 98 >>
                  => norm.ret = Ros2 \o << 97, 95, 98 >> \o Decimal(94338))
            /\ (norm.input = << 97, 64, 98 >>
                  => norm.ret = Ros2 \o << 97, 95, 98 >> \o Decimal(95299))
            /\ ( ( /\ Len(input) = Len(norm.input)
                   /\ Cardinality(DiffPositions(input, norm.input)) = 1
                   /\ sanitize(input) = norm.sanitized )
                 => sanitize_and_checksum_locals(input).checksum
                      # norm.checksum )

C6_Witness ==
    /\ norm.called
    /\ norm.input = << 97, 33, 98 >>
    /\ input = << 97, 64, 98 >>
    /\ sanitize(input) = norm.sanitized

\* C9: before truncation the sanitized string has the input's length;
\* position i holds input byte i when that byte is an ASCII letter, digit
\* or '_', and '_' for every other byte value, bytes >= 0x80 included.
C9_Sanitize ==
    norm.called =>
        /\ Len(norm.sanitized) = Len(norm.input)
        /\ \A i \in 1 .. Len(norm.input) :
              norm.sanitized[i] =
                 IF norm.input[i] \in IdentifierBytes
                 THEN norm.input[i] ELSE 95

C9_Witness ==
    /\ norm.called
    /\ Len(norm.input) >= 2
    /\ \E i \in 1 .. Len(norm.input) : norm.input[i] >= 128
    /\ \E i \in 1 .. Len(norm.input) : norm.input[i] \in IdentifierBytes

\* C10: no unsigned operation wraps: sum * 31 + byte never carries out of
\* 64 bits, the accumulator is below 1000000007 before every step, the
\* checksum has 1 to 10 digits, 256 - 5 - len(checksum) never borrows and
\* lies between 241 and 250.
C10_NoWrap ==
    norm.called =>
        /\ ~ norm.wrapped
        /\ norm.bounded
        /\ U64LessNat(norm.sum, 1000000007)
        /\ Len(norm.checksum) \in 1 .. 10
        /\ ~ norm.underflow
        /\ U64LessNat(norm.max_sanitized_length, 251)
        /\ ~ U64LessNat(norm.max_sanitized_length, 241)

C10_Witness ==
    /\ norm.called
    /\ Len(norm.input) > 200
    /\ Len(norm.checksum) >= 9
    /\ U64ToNat(norm.max_sanitized_length) <= 242

----------------------------------------------------------------------------
(* Reference definitions used by the properties of resolve_topic_name.     *)

\* TOPICS holds JSON text whose root is an object with a "topics" array
ParsesToTopicsArray(env) ==
    /\ env.set
    /\ env.text.syntax = "valid"
    /\ env.text.doc.kind = "object"
    /\ env.text.doc.has_topics
    /\ env.text.doc.topics_is_array

TopicsOf(env) == env.text.doc.topics

\* positions of the elements whose topic_name is the string s
NameMatches(env, s) ==
    { i \in 1 .. Len(TopicsOf(env)) :
        /\ TopicsOf(env)[i].kind = "object"
        /\ TopicsOf(env)[i].topic_name = StringMember(s) }

\* positions of the elements that have a string topic_key
StringKeys(env) ==
    { i \in 1 .. Len(TopicsOf(env)) :
        /\ TopicsOf(env)[i].kind = "object"
        /\ TopicsOf(env)[i].topic_key.has
        /\ TopicsOf(env)[i].topic_key.is_string }

Least(S) == CHOOSE x \in S : \A y \in S : x <= y

KeyAt(env, i) == TopicsOf(env)[i].topic_key.str

\* the call recorded in call read the TOPICS value the state holds
Observed == call.called /\ call.current

ReturnedDefault == call.outcome = "returned" /\ call.ret = call.default_value

NotFoundDiagnostic == << Diagnostic("not_found", call.search_topic, "") >>

----------------------------------------------------------------------------
(* Properties of resolve_topic_name (under Spec).                          *)

\* C1: whenever TOPICS is unset, is not parseable, or parses to a document
\* with no entry whose topic_name equals search_topic (root not an object,
\* no topics array, elements that are not objects or have no string
\* topic_name, or no equal name), the call returns exactly default_value
\* and no exception leaves it.
C1_AlwaysDefault ==
    ( /\ Observed
      /\ \/ ~ TOPICS.set
         \/ TOPICS.text.syntax # "valid"
         \/ ~ ParsesToTopicsArray(TOPICS)
         \/ NameMatches(TOPICS, call.search_topic) = {} )
    => ReturnedDefault

\* C2: when the first entry, in document order, whose topic_name equals
\* search_topic has a string topic_key k, the call returns
\* sanitize_and_checksum(k), whatever entries follow and whatever
\* default_value is.
C2_FirstUsableMatch ==
    ( /\ Observed
      /\ ParsesToTopicsArray(TOPICS)
      /\ NameMatches(TOPICS, call.search_topic) # {}
      /\ Least(NameMatches(TOPICS, call.search_topic)) \in StringKeys(TOPICS) )
    => /\ call.outcome = "returned"
       /\ call.ret = sanitize_and_checksum(
                        KeyAt(TOPICS, Least(NameMatches(TOPICS, call.search_topic))))

C2_Witness ==
    /\ Observed
    /\ ParsesToTopicsArray(TOPICS)
    /\ Len(TopicsOf(TOPICS)) >= 2
    /\ {1, 2} \subseteq NameMatches(TOPICS, call.search_topic)
    /\ {1, 2} \subseteq StringKeys(TOPICS)
    /\ KeyAt(TOPICS, 1) # KeyAt(TOPICS, 2)
    /\ call.ret = sanitize_and_checksum(KeyAt(TOPICS, 1))

\* C3 as stated: when the first entry whose topic_name equals search_topic
\* has no string topic_key, the call returns default_value, whatever
\* entries follow it.
C3_FirstMatchEndsSearch ==
    ( /\ Observed
      /\ ParsesToTopicsArray(TOPICS)
      /\ NameMatches(TOPICS, call.search_topic) # {}
      /\ Least(NameMatches(TOPICS, call.search_topic)) \notin StringKeys(TOPICS) )
    => ReturnedDefault

\* C3 as amended: when the first entry whose topic_name equals search_topic
\* has no string topic_key, the scan goes on: the call returns
\* sanitize_and_checksum(k) for the first later entry that has both that
\* topic_name and a string topic_key k, and returns default_value (with the
\* not-found diagnostic) only when there is no such entry.
C3_ScanContinues ==
    ( /\ Observed
      /\ ParsesToTopicsArray(TOPICS)
      /\ NameMatches(TOPICS, call.search_topic) # {}
      /\ Least(NameMatches(TOPICS, call.search_topic)) \notin StringKeys(TOPICS) )
    => LET usable == NameMatches(TOPICS, call.search_topic) \cap StringKeys(TOPICS)
       IN  IF usable = {}
           THEN ReturnedDefault /\ call.cerr = NotFoundDiagnostic
           ELSE /\ call.outcome = "returned"
                /\ call.ret = sanitize_and_checksum(KeyAt(TOPICS, Least(usable)))
                /\ call.cerr = << >>

C3_Witness ==
    /\ Observed
    /\ ParsesToTopicsArray(TOPICS)
    /\ NameMatches(TOPICS, call.search_topic) # {}
    /\ Least(NameMatches(TOPICS, call.search_topic)) \notin StringKeys(TOPICS)
    /\ NameMatches(TOPICS, call.search_topic) \cap StringKeys(TOPICS) # {}
    /\ call.outcome = "returned"
    /\ call.ret # call.default_value

\* the outcome as a function of the arguments and the TOPICS value read
ExpectedOutcome(s, d, env) ==
    IF ~ env.set THEN << "returned", d >>
    ELSE IF env.text.syntax = "malformed" THEN << "returned", d >>
    ELSE IF env.text.syntax = "overflow" THEN << "threw", << >> >>
    ELSE IF /\ ParsesToTopicsArray(env)
            /\ NameMatches(env, s) \cap StringKeys(env) # {}
         THEN << "returned",
                 sanitize_and_checksum(
                     KeyAt(env, Least(NameMatches(env, s) \cap StringKeys(env)))) >>
         ELSE << "returned", d >>

\* C7: the outcome of every call is a function of search_topic,
\* default_value and the TOPICS value the call read, whatever calls and
\* changes of TOPICS came before; a call with the same arguments against
\* an unchanged TOPICS leaves the recorded outcome as it is; and no call
\* changes TOPICS or any other state.
C7_FunctionOfObservedSource ==
    /\ [] ( Observed =>
              << call.outcome, call.ret >>
                = ExpectedOutcome(call.search_topic, call.default_value, TOPICS) )
    /\ [] [ ( /\ Observed
              /\ call'.current
              /\ call'.search_topic = call.search_topic
              /\ call'.default_value = call.default_value )
            => call' = call ]_vars
    /\ [] [ call'.current =>
              /\ TOPICS' = TOPICS
              /\ char_signed' = char_signed
              /\ input' = input
              /\ norm' = norm ]_vars

C7_Witness ==
    /\ Observed
    /\ ParsesToTopicsArray(TOPICS)
    /\ Len(TopicsOf(TOPICS)) >= 2
    /\ call.outcome = "returned"
    /\ call.ret # call.default_value
    /\ call.search_topic = NameY

\* C8: a call that does not return a Final Identifier writes exactly one
\* diagnostic, the one of the branch taken (TOPICS unset; parse failure,
\* with the parser's text; nothing usable found), and returns
\* default_value; a call that returns a Final Identifier writes none.
C8_DiagnosticOnEveryFallback ==
    Observed =>
        LET usable == IF ParsesToTopicsArray(TOPICS)
                      THEN NameMatches(TOPICS, call.search_topic) \cap StringKeys(TOPICS)
                      ELSE {}
        IN  /\ usable # {} => call.outcome = "returned" /\ call.cerr = << >>
            /\ usable = {} =>
                  /\ ReturnedDefault
                  /\ Len(call.cerr) = 1
                  /\ ~ TOPICS.set => call.cerr[1].line = "not_set"
                  /\ (TOPICS.set /\ TOPICS.text.syntax # "valid") =>
                        /\ call.cerr[1].line = "parse_error"
                        /\ call.cerr[1].what = parse(TOPICS.text).what
                  /\ (TOPICS.set /\ TOPICS.text.syntax = "valid") =>
                        call.cerr = NotFoundDiagnostic

====
